---- MODULE Spec2Model ----
(***************************************************************************)
(* Model of screenshot_automation.py: the APClassroomOCR session object,   *)
(* its structured extractor (extract_question_and_answers, with the        *)
(* answer clean-up of the embedded extractQuestionData script), the        *)
(* navigation loop run_automation, save_results and the flow of main().    *)
(*                                                                         *)
(* Text is modelled by TLA+ strings, so lengths, prefixes and formatting   *)
(* are computed on the real characters.  The circled capital glyphs        *)
(* U+24B6..U+24BA of the script's patterns are written "@" here, to keep   *)
(* the module in ASCII.                                                    *)
(***************************************************************************)
EXTENDS Integers, Sequences, FiniteSets, TLC

VARIABLES
    selector_type,           \* SELECTOR_TYPE of config.py
    by_method,               \* local by_method of run_automation
    max_clicks,              \* MAX_CLICKS of config.py, the run length N
    str_hash,                \* this process's hash() on the strings it meets
    pc,                      \* position of main() / run_automation
    i,                       \* loop variable of run_automation (0-based)
    ocr_results,             \* self.ocr_results
    last_question_hash,      \* self.last_question_hash
    successful_extractions,  \* local counter of run_automation
    data,                    \* what the script returned to the last extraction
    extracted_text,          \* what the last extraction returned
    clicks,                  \* 'next' clicks requested so far
    ocr_passes,              \* screenshots taken and handed to pytesseract
    output_file,             \* what save_results wrote
    summary,                 \* the counts main() prints
    events                   \* what the run did so far, in order

vars == <<selector_type, by_method, max_clicks, str_hash, pc, i, ocr_results,
          last_question_hash, successful_extractions, data, extracted_text,
          clicks, ocr_passes, output_file, summary, events>>

----------------------------------------------------------------------------
(* Bounds of the model *)

\* largest MAX_CLICKS explored
MaxQuestions == 3

\* hash() values range over 0..MaxHash (CPython: any machine integer but -1)
MaxHash == 1

(* Program constants *)

MinQuestionLen == 20
MinAnswers == 2
MaxAnswers == 5
MinAnswerLen == 5
HashPrefixLen == 100

\* Python's None, for the integer-valued last_question_hash (hash() never
\* returns -1)
None == -1

\* An optional value: <<>> is None / absent, <<v>> is the value v
Absent == <<>>
Some(v) == <<v>>

Min(a, b) == IF a < b THEN a ELSE b
Range(s) == {s[k] : k \in 1..Len(s)}

----------------------------------------------------------------------------
(* Strings *)

IsSpace(c) == c \in {" ", "\n", "\t"}

RECURSIVE LStrip(_)
LStrip(s) ==
    IF s # "" /\ IsSpace(SubSeq(s, 1, 1)) THEN LStrip(SubSeq(s, 2, Len(s))) ELSE s

RECURSIVE RStrip(_)
RStrip(s) ==
    IF s # "" /\ IsSpace(SubSeq(s, Len(s), Len(s)))
    THEN RStrip(SubSeq(s, 1, Len(s) - 1))
    ELSE s

\* String.prototype.trim
Trim(s) == RStrip(LStrip(s))

\* str.startswith
StartsWith(s, p) == Len(s) >= Len(p) /\ SubSeq(s, 1, Len(p)) = p

CircledLetters == {"@"}
AnswerLetters == {"A", "B", "C", "D", "E"}

\* replace(/^[circled]\s*/g, '')
StripCircled(s) ==
    IF s # "" /\ SubSeq(s, 1, 1) \in CircledLetters
    THEN LStrip(SubSeq(s, 2, Len(s)))
    ELSE s

\* replace(/^\([A-E]\)\s*/g, '')
StripParenLetter(s) ==
    IF /\ Len(s) >= 3
       /\ SubSeq(s, 1, 1) = "("
       /\ SubSeq(s, 2, 2) \in AnswerLetters
       /\ SubSeq(s, 3, 3) = ")"
    THEN LStrip(SubSeq(s, 4, Len(s)))
    ELSE s

\* replace(/^[A-E]\s+/g, '')
StripLetter(s) ==
    IF /\ Len(s) >= 2
       /\ SubSeq(s, 1, 1) \in AnswerLetters
       /\ IsSpace(SubSeq(s, 2, 2))
    THEN LStrip(SubSeq(s, 2, Len(s)))
    ELSE s

\* the clean-up of one answer element's text
cleanText(text) == Trim(StripLetter(StripParenLetter(StripCircled(text))))

\* the loop over answerElements with seenTexts: keeps the cleaned texts that
\* are substantial and not seen before, in order
RECURSIVE CollectAnswers(_, _, _)
CollectAnswers(answerElements, k, answers) ==
    IF k > Len(answerElements) THEN answers
    ELSE LET c == cleanText(answerElements[k]) IN
         IF Len(c) > MinAnswerLen /\ c \notin Range(answers)
         THEN CollectAnswers(answerElements, k + 1, Append(answers, c))
         ELSE CollectAnswers(answerElements, k + 1, answers)

\* slice(0, 5) in the script, [:5] in Python
Slice(s, n) == SubSeq(s, 1, Min(n, Len(s)))

\* result.answers of extractQuestionData
ScriptAnswers(answerElements) ==
    Slice(CollectAnswers(answerElements, 1, <<>>), MaxAnswers)

----------------------------------------------------------------------------
(* Pages: what the embedded script finds on the screen.  question is       *)
(* result.question as picked by the script (empty when it found no         *)
(* candidate, else a text of 31..999 characters); answerElements are the   *)
(* texts of the answer elements its strategies 1 and 2 collected.          *)

QuestionFrance == "What is the capital of France, the country in Europe?"

Passage ==
    "Read the following passage about a field experiment on plant growth "
    \o "under drought, then answer this. "

QuestionPassageFirst == Passage \o "Which claim does the author make first?"
QuestionPassageLast == Passage \o "Which claim does the author make last?"

Pages == {
    [question |-> QuestionFrance,
     answerElements |-> <<"A  Paris, France", "(B) London, England",
                          "@ Berlin, Germany">>],
    [question |-> QuestionPassageFirst,
     answerElements |-> <<"A  Growth slows down", "B  Growth speeds up">>],
    [question |-> QuestionPassageLast,
     answerElements |-> <<"A  Roots grow deeper", "B  Leaves fall early",
                          "C  Stems get thinner", "D  Seeds stay dormant",
                          "E  Flowers open late", "A  Nothing changes">>],
    [question |-> QuestionFrance,
     answerElements |-> <<"A  Paris, France", "D  Paris, France", "E  Rome">>],
    [question |-> "",
     answerElements |-> <<"A  Paris, France", "(B) London, England">>]
}

\* data as execute_script returns it for a page
ScriptData(page) ==
    [question |-> page.question, answers |-> ScriptAnswers(page.answerElements)]

\* what execute_script can do: return the data of the page on screen, or
\* raise (Absent)
ScriptOutcomes == {Some(ScriptData(page)) : page \in Pages} \cup {Absent}

----------------------------------------------------------------------------
(* extract_question_and_answers *)

\* data['question'][:100]
QuestionPrefix(question) == SubSeq(question, 1, Min(HashPrefixLen, Len(question)))

\* the strings hash() is applied to
HashedStrings == {QuestionPrefix(page.question) : page \in Pages}

\* not data['question'] or len(data['question']) < 20
QuestionMissing(d) == d.question = "" \/ Len(d.question) < MinQuestionLen

\* variant: one answer is enough
NotEnoughAnswersOne(d) == d.answers = <<>>

\* not data['answers'] or len(data['answers']) < 2
NotEnoughAnswers(d) == d.answers = <<>> \/ Len(d.answers) < MinAnswers

\* question_hash = hash(data['question'][:100])
question_hash(d) == str_hash[QuestionPrefix(d.question)]

\* truth value of an int-or-None
Truthy(h) == h # None /\ h # 0

\* self.last_question_hash and question_hash == self.last_question_hash
DuplicateDetected(d, lqh) == Truthy(lqh) /\ question_hash(d) = lqh

letters == <<"A", "B", "C", "D", "E">>

RECURSIVE AnswerLines(_, _)
AnswerLines(answers, idx) ==
    IF idx > Len(answers) THEN ""
    ELSE letters[idx] \o ". " \o answers[idx] \o "\n" \o AnswerLines(answers, idx + 1)

\* variant: no blank line between the stem and the options
FormattedNoBlankLine(d) ==
    d.question \o "\n" \o AnswerLines(Slice(d.answers, MaxAnswers), 1)

\* the formatted text of an accepted question
Formatted(d) == d.question \o "\n\n" \o AnswerLines(Slice(d.answers, MaxAnswers), 1)

\* the gates, in the order of the code; a script that raised is caught
Rejected(outcome, lqh) ==
    \/ outcome = Absent
    \/ QuestionMissing(outcome[1])
    \/ NotEnoughAnswers(outcome[1])
    \/ DuplicateDetected(outcome[1], lqh)

\* the return value: None (Absent) or the formatted text
ExtractReturn(outcome, lqh) ==
    IF Rejected(outcome, lqh) THEN Absent ELSE Some(Formatted(outcome[1]))

\* variant: the hash is stored before the answers are counted and the
\* duplicate is looked for
HashAfterExtractEarly(outcome, lqh) ==
    IF outcome = Absent \/ QuestionMissing(outcome[1])
    THEN lqh
    ELSE question_hash(outcome[1])

\* self.last_question_hash after the call
HashAfterExtract(outcome, lqh) ==
    IF Rejected(outcome, lqh) THEN lqh ELSE question_hash(outcome[1])

----------------------------------------------------------------------------
(* run_automation *)

\* the placeholder text of a failed extraction
Placeholder(n) ==
    "[Unable to extract question " \o ToString(n) \o " - please check manually]\n\n"

\* variant: the loop variable itself, counted from 0
QuestionNumZeroBased(idx) == idx

\* 'question_num': i + 1
QuestionNum(idx) == idx + 1

\* variant: a failed extraction leaves an entry with no text
ResultEntryNoMarker(idx, text) ==
    [question_num |-> idx + 1,
     text |-> IF text # Absent THEN text[1] ELSE ""]

\* the entry appended for iteration idx: `if extracted_text:` is false for
\* None and for the empty string
ResultEntry(idx, text) ==
    IF text # Absent /\ text[1] # ""
    THEN [question_num |-> QuestionNum(idx), text |-> text[1]]
    ELSE [question_num |-> QuestionNum(idx), text |-> Placeholder(QuestionNum(idx))]

\* variant: only a successful extraction is appended
RecordedOnlySuccess(results, idx, text) ==
    IF text # Absent
    THEN Append(results, [question_num |-> idx + 1, text |-> text[1]])
    ELSE results

\* self.ocr_results.append(...), on either branch of `if extracted_text:`
Recorded(results, idx, text) == Append(results, ResultEntry(idx, text))

\* variant: a click after the last question too
ClickWantedAlways(idx, n) == idx < n

\* if i < max_clicks - 1
ClickWanted(idx, n) == idx < n - 1

\* for i in range(max_clicks): there is a next value after idx
LoopContinues(idx, n) == idx + 1 < n

LoopPositions == {"wait_for_load", "extract", "click_next"}

\* the selector kinds the configuration offers
SelectorTypes == {"css", "xpath", "id", "class", "name"}

\* selector_map, with the values of selenium's By.CSS_SELECTOR, By.XPATH,
\* By.ID and By.CLASS_NAME
selector_map ==
    [css |-> "css selector", xpath |-> "xpath", id |-> "id", class |-> "class name"]

\* selector_map.get(SELECTOR_TYPE, By.CSS_SELECTOR)
SelectorLookup(kind) ==
    IF kind \in DOMAIN selector_map THEN selector_map[kind] ELSE "css selector"

\* one more entry of the run's log: what happened, for which question
Logged(log, name, k) == Append(log, [ev |-> name, k |-> k])

Init ==
    /\ selector_type \in SelectorTypes
    /\ by_method = SelectorLookup(selector_type)
    /\ events = <<>>
    /\ max_clicks \in 1..MaxQuestions
    /\ str_hash \in [HashedStrings \ {""} -> 0..MaxHash]
    /\ pc = "wait_for_load"
    /\ i = 0
    /\ ocr_results = <<>>
    /\ last_question_hash = None
    /\ successful_extractions = 0
    /\ data = Absent
    /\ extracted_text = Absent
    /\ clicks = 0
    /\ ocr_passes = 0
    /\ output_file = Absent
    /\ summary = Absent

\* self.wait_for_load() returns: the page reported readyState complete
WaitForLoad ==
    /\ pc = "wait_for_load"
    /\ events' = Logged(events, "load_complete", i + 1)
    /\ pc' = "extract"
    /\ UNCHANGED <<selector_type, by_method, max_clicks, str_hash,
                   i, ocr_results, last_question_hash,
                   successful_extractions, data, extracted_text, clicks,
                   ocr_passes, output_file, summary>>

\* WebDriverWait(...).until raises TimeoutException: nothing in
\* run_automation catches it, main()'s `except Exception` does
WaitForLoadTimeout ==
    /\ pc = "wait_for_load"
    /\ events' = Logged(events, "load_timeout", i + 1)
    /\ pc' = "fatal_error"
    /\ UNCHANGED <<selector_type, by_method, max_clicks, str_hash,
                   i, ocr_results, last_question_hash,
                   successful_extractions, data, extracted_text, clicks,
                   ocr_passes, output_file, summary>>

\* extract_question_and_answers() and the recording of its result; then the
\* click is wanted, or the loop goes on to its next value or ends
Extract ==
    /\ pc = "extract"
    /\ events' = Logged(Logged(Logged(events, "extract_start", i + 1),
                                "extract_end", i + 1), "record", i + 1)
    /\ \E outcome \in ScriptOutcomes :
         LET text == ExtractReturn(outcome, last_question_hash) IN
         /\ data' = outcome
         /\ extracted_text' = text
         /\ last_question_hash' = HashAfterExtract(outcome, last_question_hash)
         /\ ocr_results' = Recorded(ocr_results, i, text)
         /\ successful_extractions' =
                IF text # Absent /\ text[1] # ""
                THEN successful_extractions + 1
                ELSE successful_extractions
    /\ IF ClickWanted(i, max_clicks)
       THEN pc' = "click_next" /\ i' = i
       ELSE IF LoopContinues(i, max_clicks)
            THEN pc' = "wait_for_load" /\ i' = i + 1
            ELSE pc' = "save_results" /\ i' = i
    /\ UNCHANGED <<selector_type, by_method, max_clicks, str_hash,
                   clicks,
                   ocr_passes, output_file, summary>>

\* variant: after the click the loop extracts at once, without the wait
ClickNextSkipsWait ==
    /\ pc = "click_next"
    /\ events' = Logged(events, "click", i + 1)
    /\ clicks' = clicks + 1
    /\ i' = i + 1
    /\ pc' = "extract"
    /\ UNCHANGED <<selector_type, by_method, max_clicks, str_hash,
                   ocr_results, last_question_hash, successful_extractions,
                   data, extracted_text, ocr_passes, output_file, summary>>

\* the 'next' control became clickable, located by by_method, and was clicked
ClickNext ==
    /\ pc = "click_next"
    /\ events' = Logged(events, "click", i + 1)
    /\ clicks' = clicks + 1
    /\ IF LoopContinues(i, max_clicks)
       THEN pc' = "wait_for_load" /\ i' = i + 1
       ELSE pc' = "save_results" /\ i' = i
    /\ UNCHANGED <<selector_type, by_method, max_clicks, str_hash,
                   ocr_results, last_question_hash,
                   successful_extractions, data, extracted_text, ocr_passes,
                   output_file, summary>>

\* variant: the failed click is tried again instead of leaving the loop
ClickNextFailsRetry ==
    /\ pc = "click_next"
    /\ events' = Logged(events, "click", i + 1)
    /\ clicks' = clicks + 1
    /\ pc' = "click_next"
    /\ UNCHANGED <<selector_type, by_method, max_clicks, str_hash,
                   i, ocr_results, last_question_hash,
                   successful_extractions, data, extracted_text, ocr_passes,
                   output_file, summary>>

\* the wait for the control timed out or the click raised: break
ClickNextFails ==
    /\ pc = "click_next"
    /\ events' = Logged(events, "click", i + 1)
    /\ clicks' = clicks + 1
    /\ pc' = "save_results"
    /\ UNCHANGED <<selector_type, by_method, max_clicks, str_hash,
                   i, ocr_results, last_question_hash,
                   successful_extractions, data, extracted_text, ocr_passes,
                   output_file, summary>>

----------------------------------------------------------------------------
(* save_results and main *)

\* the file: the banner, then one block per result
FileOf(results) ==
    [banner |-> "AP CLASSROOM - QUESTIONS & ANSWERS",
     blocks |-> [k \in 1..Len(results) |->
                    [heading |-> "QUESTION " \o ToString(results[k].question_num),
                     body |-> results[k].text \o "\n"]]]

\* ocr.save_results(OCR_RESULTS_FILE), after run_automation returned
SaveResults ==
    /\ pc = "save_results"
    /\ events' = Logged(events, "save", Len(ocr_results))
    /\ output_file' = Some(FileOf(ocr_results))
    /\ pc' = "summary"
    /\ UNCHANGED <<selector_type, by_method, max_clicks, str_hash,
                   i, ocr_results, last_question_hash,
                   successful_extractions, data, extracted_text, clicks,
                   ocr_passes, summary>>

\* len([r for r in ocr.ocr_results if not r['text'].startswith('[Unable')])
Successful(results) ==
    Cardinality({k \in 1..Len(results) : ~StartsWith(results[k].text, "[Unable")})

\* failed = MAX_CLICKS - successful
Failed(results, n) == n - Successful(results)

Summary ==
    /\ pc = "summary"
    /\ events' = events
    /\ summary' = Some([successful |-> Successful(ocr_results),
                        failed |-> Failed(ocr_results, max_clicks)])
    /\ pc' = "cleanup"
    /\ UNCHANGED <<selector_type, by_method, max_clicks, str_hash,
                   i, ocr_results, last_question_hash,
                   successful_extractions, data, extracted_text, clicks,
                   ocr_passes, output_file>>

\* a KeyboardInterrupt while the loop runs: it is no Exception, so neither
\* the handlers of the loop nor main()'s `except Exception` catch it, and
\* only the `finally` clause runs
Interrupt ==
    /\ pc \in LoopPositions
    /\ events' = Logged(events, "interrupt", i + 1)
    /\ pc' = "cleanup"
    /\ UNCHANGED <<selector_type, by_method, max_clicks, str_hash,
                   i, ocr_results, last_question_hash,
                   successful_extractions, data, extracted_text, clicks,
                   ocr_passes, output_file, summary>>

\* except Exception as e: print the fatal error
FatalError ==
    /\ pc = "fatal_error"
    /\ events' = events
    /\ pc' = "cleanup"
    /\ UNCHANGED <<selector_type, by_method, max_clicks, str_hash,
                   i, ocr_results, last_question_hash,
                   successful_extractions, data, extracted_text, clicks,
                   ocr_passes, output_file, summary>>

\* finally: ocr.cleanup()
Cleanup ==
    /\ pc = "cleanup"
    /\ events' = events
    /\ pc' = "exit"
    /\ UNCHANGED <<selector_type, by_method, max_clicks, str_hash,
                   i, ocr_results, last_question_hash,
                   successful_extractions, data, extracted_text, clicks,
                   ocr_passes, output_file, summary>>

Next ==
    \/ WaitForLoad
    \/ WaitForLoadTimeout
    \/ Extract
    \/ ClickNext
    \/ ClickNextFails
    \/ SaveResults
    \/ Summary
    \/ Interrupt
    \/ FatalError
    \/ Cleanup

Spec == Init /\ [][Next]_vars

\* the types of the state
TypeOK ==
    /\ max_clicks \in 1..MaxQuestions
    /\ i \in 0..(max_clicks - 1)
    /\ pc \in LoopPositions \cup {"save_results", "summary", "fatal_error",
                                  "cleanup", "exit"}
    /\ last_question_hash \in {None} \cup (0..MaxHash)
    /\ Len(ocr_results) <= max_clicks
    /\ selector_type \in SelectorTypes
    /\ by_method \in {"css selector", "xpath", "id", "class name", "name"}
    /\ Len(QuestionFrance) > 30
    /\ Len(Passage) >= HashPrefixLen

----------------------------------------------------------------------------
(* Properties *)

\* run_automation returned to main()
RunReturned == pc \in {"save_results", "summary"} \/ output_file # Absent

\* no 'next' click failed so far: each successful click advanced i
AllClicksSucceeded == clicks = i

\* a 'next' click failed
ClickFailed == clicks > i

NumberedInOrder(results) ==
    \A k \in 1..Len(results) : results[k].question_num = k

\* the texts of the questions that pass the validation gate
AcceptedTexts ==
    {Formatted(ScriptData(page)) :
        page \in {q \in Pages : /\ Len(q.question) >= MinQuestionLen
                                /\ Len(ScriptData(q).answers) >= MinAnswers}}

\* the file holds one block per result, in order, under its own number
FileHolds(file, results) ==
    /\ Len(file.blocks) = Len(results)
    /\ \A k \in 1..Len(results) :
         /\ file.blocks[k].heading = "QUESTION " \o ToString(k)
         /\ file.blocks[k].body = results[k].text \o "\n"

\* a step that is a call of extract_question_and_answers which came back
\* (with a value or with an exception it caught)
ExtractionStep == pc = "extract" /\ pc' # "extract" /\ pc' # "cleanup"

\* C1: when run_automation has returned and every 'next' click succeeded,
\* the results hold exactly max_clicks entries, numbered 1..max_clicks in
\* order, whatever the extractions did.
C1_Ordinality ==
    (RunReturned /\ AllClicksSucceeded) =>
        /\ Len(ocr_results) = max_clicks
        /\ NumberedInOrder(ocr_results)

\* C1 witness: a full run of three questions of which the first and the
\* last failed
C1_Witness ==
    /\ RunReturned /\ AllClicksSucceeded
    /\ max_clicks = 3
    /\ ocr_results[1].text = Placeholder(1)
    /\ ocr_results[2].text \in AcceptedTexts
    /\ ocr_results[3].text = Placeholder(3)

\* C2: in every state the results hold the indices 1..k in order, for a
\* k <= max_clicks, with no gap or duplicate; every entry is an accepted
\* text or the failure placeholder of its own index, and the entry of a
\* failed extraction is that placeholder.
C2_NoGapNoDuplicate ==
    /\ Len(ocr_results) <= max_clicks
    /\ NumberedInOrder(ocr_results)
    /\ \A k \in 1..Len(ocr_results) :
         \/ ocr_results[k].text = Placeholder(k)
         \/ ocr_results[k].text \in AcceptedTexts
    /\ Len(ocr_results) > 0 =>
         (extracted_text = Absent
            <=> ocr_results[Len(ocr_results)].text = Placeholder(Len(ocr_results)))

\* C2 witness: a run that ended early, after a failed and then a successful
\* extraction
C2_Witness ==
    /\ pc = "exit"
    /\ max_clicks = 3
    /\ Len(ocr_results) = 2
    /\ ocr_results[1].text = Placeholder(1)
    /\ ocr_results[2].text \in AcceptedTexts

\* C3: every extraction step appends exactly one entry and goes on to the
\* click (or ends the loop after the last question); when the script raised,
\* a gate rejected the data or the question was a duplicate, the entry is
\* the placeholder of that index.
C3_ExtractionNeverBlocks ==
    [][ExtractionStep =>
         /\ Len(ocr_results') = Len(ocr_results) + 1
         /\ SubSeq(ocr_results', 1, Len(ocr_results)) = ocr_results
         /\ ocr_results'[Len(ocr_results')].question_num = i + 1
         /\ pc' = IF i + 1 < max_clicks THEN "click_next" ELSE "save_results"
         /\ (\/ data' = Absent
             \/ QuestionMissing(data'[1])
             \/ NotEnoughAnswers(data'[1])
             \/ DuplicateDetected(data'[1], last_question_hash))
            => /\ extracted_text' = Absent
               /\ ocr_results'[Len(ocr_results')].text = Placeholder(i + 1)
       ]_vars

\* C3 witness: the script raised in the second extraction, its placeholder
\* is recorded and the loop is at the click
C3_Witness ==
    /\ pc = "click_next"
    /\ data = Absent
    /\ Len(ocr_results) = 2
    /\ ocr_results[2].text = Placeholder(2)

\* C4: once a 'next' click has failed after item k < max_clicks, the loop is
\* left for good: no more waits, extractions or clicks, the results stay the
\* k entries 1..k, and save_results writes exactly those.
C4_ClickFailureEndsLoop ==
    /\ [](ClickFailed =>
            /\ pc \notin LoopPositions
            /\ clicks = i + 1
            /\ Len(ocr_results) = i + 1
            /\ Len(ocr_results) < max_clicks
            /\ NumberedInOrder(ocr_results)
            /\ pc \in {"summary", "cleanup", "exit"} =>
                 /\ output_file # Absent
                 /\ FileHolds(output_file[1], ocr_results))
    /\ [][ClickFailed =>
            /\ pc' \notin LoopPositions
            /\ ocr_results' = ocr_results
            /\ clicks' = clicks
            /\ i' = i]_vars

\* C4 witness: the click after the first of three questions failed, and the
\* program ended with a file of one block
C4_Witness ==
    /\ ClickFailed
    /\ pc = "exit"
    /\ max_clicks = 3
    /\ Len(ocr_results) = 1
    /\ output_file # Absent
    /\ Len(output_file[1].blocks) = 1

\* C5: whenever the program ends with at least one item recorded,
\* save_results was called on the items recorded.
C5_PartialResultsSaved ==
    (pc = "exit" /\ Len(ocr_results) >= 1) =>
        /\ output_file # Absent
        /\ FileHolds(output_file[1], ocr_results)

\* the entries that are failure placeholders
Placeholders(results) ==
    {k \in 1..Len(results) : results[k].text = Placeholder(results[k].question_num)}

\* C6: a failure placeholder is recorded only after a screen capture and a
\* recognition pass of the same iteration: there are at least as many such
\* passes as placeholders.
C6_FallbackBeforeFailed ==
    Cardinality(Placeholders(ocr_results)) <= ocr_passes

\* C7: when an extraction returned a formatted item for a valid stem and
\* the next extraction is fed the same data, that next call returns None.
C7_SameStemTwice ==
    [][(/\ ExtractionStep
        /\ data # Absent
        /\ extracted_text # Absent
        /\ data' = data)
       => extracted_text' = Absent]_vars

\* the distinct substantial option texts on a page
DistinctOptions(page) ==
    {c \in {cleanText(page.answerElements[k]) : k \in 1..Len(page.answerElements)} :
        Len(c) > 5}

\* C8: an extraction returns a text only for data with a stem of at least
\* 20 characters and at least 2 options, all distinct, from a page showing
\* at least 2 distinct options; otherwise it returns None, whatever the
\* last accepted hash is.
C8_ValidationGate ==
    extracted_text # Absent =>
        /\ data # Absent
        /\ data[1].question # ""
        /\ Len(data[1].question) >= 20
        /\ Len(data[1].answers) >= 2
        /\ Cardinality(Range(data[1].answers)) = Len(data[1].answers)
        /\ \A page \in Pages :
             data[1] = ScriptData(page) => Cardinality(DistinctOptions(page)) >= 2

\* C8 witness: after an accepted question, a page with a good stem whose
\* options clean to one distinct text was rejected
C8_Witness ==
    /\ last_question_hash # None
    /\ data # Absent
    /\ Len(data[1].question) >= 20
    /\ Len(data[1].answers) = 1
    /\ extracted_text = Absent
    /\ ocr_results[Len(ocr_results)].text = Placeholder(Len(ocr_results))

\* C9: last_question_hash is None at the start; it changes only in an
\* extraction that returns a text, which sets it to the hash of that
\* question; an extraction that returns None and every other step leave it
\* alone; it never goes back to None.
C9_DedupStateFrame ==
    /\ last_question_hash = None
    /\ [][/\ (last_question_hash' # last_question_hash) =>
                (ExtractionStep /\ extracted_text' # Absent)
          /\ (ExtractionStep /\ extracted_text' # Absent) =>
                last_question_hash' = str_hash[QuestionPrefix(data'[1].question)]
          /\ (ExtractionStep /\ extracted_text' = Absent) =>
                last_question_hash' = last_question_hash
          /\ last_question_hash # None => last_question_hash' # None
         ]_vars

\* C9 witness: after an accepted question, an extraction of valid-looking
\* data with too few options returned None at the second item
C9_Witness ==
    /\ Len(ocr_results) = 2
    /\ ocr_results[1].text \in AcceptedTexts
    /\ last_question_hash # None
    /\ data # Absent
    /\ extracted_text = Absent

\* C10: at most max_clicks extractions are recorded and at most
\* max_clicks - 1 clicks requested; a click is requested only after an item
\* k < max_clicks, exactly one per item before the next wait, and none after
\* the last item.
C10_ClickBudget ==
    /\ Len(ocr_results) <= max_clicks
    /\ clicks <= max_clicks - 1
    /\ pc \in {"wait_for_load", "extract"} =>
         /\ clicks = i
         /\ Len(ocr_results) = i
    /\ pc = "click_next" =>
         /\ i + 1 < max_clicks
         /\ clicks = i
         /\ Len(ocr_results) = i + 1
    /\ pc = "save_results" =>
         \/ /\ Len(ocr_results) = max_clicks
            /\ clicks = max_clicks - 1
         \/ /\ Len(ocr_results) < max_clicks
            /\ clicks = Len(ocr_results)

\* C10 witness: the last of three items is recorded after two clicks and
\* the loop has ended
C10_Witness ==
    /\ pc = "save_results"
    /\ max_clicks = 3
    /\ Len(ocr_results) = 3
    /\ clicks = 2

\* where in the log an event of question k stands
Positions(name, k) ==
    {p \in 1..Len(events) : events[p].ev = name /\ events[p].k = k}

Happened(name, k) == Positions(name, k) # {}

\* an event of question k stands in the log before position q
Earlier(q, name, k) ==
    \E p \in 1..(q - 1) : events[p] = [ev |-> name, k |-> k]

\* C11: for every question k the load wait completes before its extraction
\* starts, the extraction ends before the item is recorded, and the item is
\* recorded before its click is requested; item k is recorded, and its click
\* requested, before the load wait or the extraction of item k + 1 begins;
\* each of these events happens at most once per question.
C11_PerItemOrder ==
    \A q \in 1..Len(events) :
        LET e == events[q] IN
        /\ e.ev \in {"load_complete", "load_timeout", "extract_start",
                     "extract_end", "record", "click"}
             => ~Earlier(q, e.ev, e.k)
        /\ e.ev = "extract_start" => Earlier(q, "load_complete", e.k)
        /\ e.ev = "extract_end" => Earlier(q, "extract_start", e.k)
        /\ e.ev = "record" => Earlier(q, "extract_end", e.k)
        /\ e.ev = "click" => Earlier(q, "record", e.k)
        /\ (e.ev \in {"load_complete", "load_timeout", "extract_start"} /\ e.k > 1)
             => /\ Earlier(q, "record", e.k - 1)
                /\ Earlier(q, "click", e.k - 1)

\* C11 witness: the second question was extracted and recorded after the
\* first one's click
C11_Witness ==
    /\ Happened("click", 1)
    /\ Happened("load_complete", 2)
    /\ Happened("record", 2)
    /\ Happened("click", 2)

\* a KeyboardInterrupt ended the loop
Interrupted == \E p \in 1..Len(events) : events[p].ev = "interrupt"

\* every step that can be taken is taken in the end: each blocking call
\* returns or times out
FairSpec == Spec /\ WF_vars(Next)

\* the program comes to its end
EventuallyExits == <>(pc = "exit")

\* C12: a run that has ended without being interrupted went through the
\* end of the loop (after the last question or after a failed click), where
\* the results are final and handed to save_results.
C12_RunReachesDone ==
    (pc = "exit" /\ ~Interrupted) => RunReturned

\* one option line
OptionLine(letter, option) == letter \o ". " \o option \o "\n"

\* the text the claim describes for a stem and 2 to 5 options
ExpectedText(stem, options) ==
    stem \o "\n\n"
    \o OptionLine("A", options[1])
    \o OptionLine("B", options[2])
    \o (IF Len(options) >= 3 THEN OptionLine("C", options[3]) ELSE "")
    \o (IF Len(options) >= 4 THEN OptionLine("D", options[4]) ELSE "")
    \o (IF Len(options) >= 5 THEN OptionLine("E", options[5]) ELSE "")

\* where a cleaned option text first stands among the elements of a page
FirstAt(page, option) ==
    CHOOSE k \in 1..Len(page.answerElements) :
        /\ cleanText(page.answerElements[k]) = option
        /\ \A j \in 1..(k - 1) : cleanText(page.answerElements[j]) # option

\* the options are the first 5 distinct option texts of the page, in the
\* order of the page
FirstFiveInOrder(page, options) ==
    /\ Len(options) = Min(5, Cardinality(DistinctOptions(page)))
    /\ Range(options) \subseteq DistinctOptions(page)
    /\ \A a, b \in 1..Len(options) :
         a < b => FirstAt(page, options[a]) < FirstAt(page, options[b])
    /\ \A other \in DistinctOptions(page) \ Range(options) :
         \A a \in 1..Len(options) :
            FirstAt(page, options[a]) < FirstAt(page, other)

\* the script data whose options are the first five of their page, in order
DataInPageOrder ==
    {ScriptData(page) :
        page \in {q \in Pages : FirstFiveInOrder(q, ScriptData(q).answers)}}

\* C13: the text of an accepted item is its stem, a blank line, then one
\* line 'L. option' per option with the letters A, B, C, D, E in order; the
\* options are the first 5 of the page in their original order, so there
\* are between 2 and 5 option lines.
C13_Formatting ==
    extracted_text # Absent =>
        /\ data # Absent
        /\ Len(data[1].answers) \in 2..5
        /\ data[1] \in DataInPageOrder
        /\ extracted_text[1] = ExpectedText(data[1].question, data[1].answers)
        /\ ocr_results[Len(ocr_results)].text = extracted_text[1]

\* C13 witness: the page with six options was accepted, with five lines
C13_Witness ==
    /\ extracted_text # Absent
    /\ data[1].question = QuestionPassageLast
    /\ Len(data[1].answers) = 5
    /\ data[1].answers[5] = "Flowers open late"

\* an entry that is no failure placeholder
Accepted(results, k) == results[k].text # Placeholder(results[k].question_num)

\* the stem of a formatted text: what stands before its first blank line
StemOf(text) ==
    LET blank == CHOOSE k \in 1..Len(text) :
                     /\ SubSeq(text, k, k + 1) = "\n\n"
                     /\ \A j \in 1..(k - 1) : SubSeq(text, j, j + 1) # "\n\n"
    IN SubSeq(text, 1, blank - 1)

\* C14: two accepted entries with only failure placeholders (or nothing)
\* between them never carry the same stem; so of a page stuck on the same
\* content only the first extraction is accepted.
C14_NeverReEmitted ==
    \A a, b \in 1..Len(ocr_results) :
        (/\ a < b
         /\ Accepted(ocr_results, a)
         /\ Accepted(ocr_results, b)
         /\ \A m \in (a + 1)..(b - 1) : ~Accepted(ocr_results, m))
        => StemOf(ocr_results[a].text) # StemOf(ocr_results[b].text)

\* the entries accepted so far
AcceptedEntries(results) == {k \in 1..Len(results) : Accepted(results, k)}

\* the stem of the last accepted entry (when there is one)
LastAcceptedStem(results) ==
    StemOf(results[CHOOSE k \in AcceptedEntries(results) :
                      \A m \in AcceptedEntries(results) : m <= k].text)

\* C15: an extraction whose data pass the validation gate and whose stem
\* differs from the last accepted stem is accepted, and its hash becomes the
\* stored one.
C15_OnlyTrueRepeats ==
    [][(/\ ExtractionStep
        /\ data' # Absent
        /\ ~QuestionMissing(data'[1])
        /\ ~NotEnoughAnswers(data'[1])
        /\ \/ AcceptedEntries(ocr_results) = {}
           \/ LastAcceptedStem(ocr_results) # data'[1].question)
       => /\ extracted_text' # Absent
          /\ last_question_hash' = str_hash[QuestionPrefix(data'[1].question)]
      ]_vars

\* C16: the summary's failure count is the number of FAILED placeholder
\* entries in the results and its success count the number of accepted
\* entries, also for a run a navigation failure ended early.
C16_SummaryCounts ==
    summary # Absent =>
        /\ summary[1].failed = Cardinality(Placeholders(ocr_results))
        /\ summary[1].successful = Cardinality(AcceptedEntries(ocr_results))

\* the locating strategy that belongs to each selector kind
OwnStrategy ==
    [css   |-> "css selector",
     xpath |-> "xpath",
     id    |-> "id",
     class |-> "class name",
     name  |-> "name"]

\* C17: the 'next' control is located with the strategy of the configured
\* selector kind, for each of css, xpath, id, class and name.
C17_OwnStrategy ==
    clicks > 0 => by_method = OwnStrategy[selector_type]

====
